---- MODULE Spec2Model ----
(***************************************************************************)
(* Model of frontend/src/api.js: the streaming response consumer           *)
(* api.sendMessageStream, with the pure helpers it relies on               *)
(* (TextDecoder.decode without the stream option, String.split,            *)
(* String.startsWith, String.slice, JSON.parse).                           *)
(*                                                                         *)
(* Text is a sequence of characters, a character is a one-character        *)
(* string; the characters outside ASCII are named by their code point      *)
(* ("U+00E9", "U+FFFD").  A chunk is a sequence of bytes; an ASCII byte is *)
(* written as its character, the other bytes in hexadecimal ("C3", "A9").  *)
(***************************************************************************)
EXTENDS Integers, Sequences, FiniteSets, TLC

\* ---------------------------------------------------------------- bounds
\* the largest number of chunks the transport cuts one response body into
MaxChunks == 3
\* the same, when two calls run concurrently
MaxChunksConc == 2
\* the same, when a call runs beside the request/response operations
MaxChunksReq == 1

\* the calls of sendMessageStream the embedding application may make
Calls == {1, 2}

\* ------------------------------------------------------- text constants
NL == "\n"
QUOTE == "\""
\* the event prefix of line 124, 'data: '
DataPrefix == <<"d", "a", "t", "a", ":", " ">>
\* the argument of line.slice(6) of line 125
PrefixLen == 6
TypeKey == <<"t", "y", "p", "e">>
Digits == {"0", "1", "2", "3", "4", "5", "6", "7", "8", "9"}

\* --------------------------------------------------- TextDecoder.decode
\* UTF-8 lead byte of a two-byte character and its continuation byte
LeadBytes == {"C3"}
ContBytes == {"A9"}
REPLACEMENT == "U+FFFD"
TwoByteChar(lead, cont) == "U+00E9"

\* decoder.decode(value) of line 120, called without {stream: true}: each
\* chunk is decoded on its own, an incomplete or stray byte sequence
\* becomes U+FFFD and nothing is kept for the next call
RECURSIVE Decode(_)
Decode(bytes) ==
  IF bytes = <<>> THEN <<>>
  ELSE IF bytes[1] \in LeadBytes
       THEN IF Len(bytes) >= 2 /\ bytes[2] \in ContBytes
            THEN <<TwoByteChar(bytes[1], bytes[2])>>
                   \o Decode(SubSeq(bytes, 3, Len(bytes)))
            ELSE <<REPLACEMENT>> \o Decode(Tail(bytes))
       ELSE IF bytes[1] \in ContBytes
            THEN <<REPLACEMENT>> \o Decode(Tail(bytes))
            ELSE <<bytes[1]>> \o Decode(Tail(bytes))

\* ---------------------------------------------------- String functions
\* chunk.split('\n') of line 121
RECURSIVE Split(_)
Split(s) ==
  IF \A i \in 1..Len(s) : s[i] # NL THEN <<s>>
  ELSE LET i == CHOOSE k \in 1..Len(s) :
                   s[k] = NL /\ \A j \in 1..(k-1) : s[j] # NL
       IN <<SubSeq(s, 1, i-1)>> \o Split(SubSeq(s, i+1, Len(s)))

\* line.startsWith(p) of line 124
StartsWith(line, p) ==
  Len(line) >= Len(p) /\ SubSeq(line, 1, Len(p)) = p

\* line.slice(n) of line 125
Slice(line, n) == SubSeq(line, n+1, Len(line))

\* ----------------------------------------------------------- JSON.parse
\* A JavaScript value is [k |-> kind, v |-> content]:
\*   null, true/false, a number (its digits), a string (its characters),
\*   an object (the sequence of its <<key, value>> members), undefined.
UNDEF == [k |-> "undefined", v |-> <<>>]
JNull == [k |-> "null", v |-> <<>>]
ParseFailure == [ok |-> FALSE, val |-> UNDEF, next |-> 0]
Parsed(val, next) == [ok |-> TRUE, val |-> val, next |-> next]

RECURSIVE SkipWs(_, _)
SkipWs(s, i) == IF i <= Len(s) /\ s[i] = " " THEN SkipWs(s, i+1) ELSE i

HasLiteral(s, i, lit) ==
  i + Len(lit) - 1 <= Len(s) /\ SubSeq(s, i, i + Len(lit) - 1) = lit

\* a string token starting at the quote s[i]; the alphabet of the model has
\* no backslash, so a backslash (an escape) is outside the modelled grammar
ParseString(s, i) ==
  LET closers == {j \in (i+1)..Len(s) : s[j] = QUOTE}
  IN IF closers = {} THEN ParseFailure
     ELSE LET j == CHOOSE m \in closers : \A n \in closers : m <= n
          IN IF \E m \in (i+1)..(j-1) : s[m] = "\\" THEN ParseFailure
             ELSE Parsed([k |-> "str", v |-> SubSeq(s, i+1, j-1)], j+1)

\* an integer token starting at the digit s[i]: 0 | [1-9][0-9]*
RECURSIVE DigitsEnd(_, _)
DigitsEnd(s, i) ==
  IF i <= Len(s) /\ s[i] \in Digits THEN DigitsEnd(s, i+1) ELSE i
ParseNumber(s, i) ==
  LET e == IF s[i] = "0" THEN i+1 ELSE DigitsEnd(s, i)
  IN Parsed([k |-> "num", v |-> SubSeq(s, i, e-1)], e)

RECURSIVE ParseValue(_, _), ParseMembers(_, _, _)
ParseValue(s, i0) ==
  LET i == SkipWs(s, i0)
  IN IF i > Len(s) THEN ParseFailure
     ELSE IF s[i] = "{"
          THEN LET j == SkipWs(s, i+1)
               IN IF j <= Len(s) /\ s[j] = "}"
                  THEN Parsed([k |-> "obj", v |-> <<>>], j+1)
                  ELSE ParseMembers(s, j, <<>>)
     ELSE IF s[i] = QUOTE THEN ParseString(s, i)
     ELSE IF s[i] \in Digits THEN ParseNumber(s, i)
     ELSE IF HasLiteral(s, i, <<"n", "u", "l", "l">>)
          THEN Parsed(JNull, i+4)
     ELSE IF HasLiteral(s, i, <<"t", "r", "u", "e">>)
          THEN Parsed([k |-> "bool", v |-> <<"true">>], i+4)
     ELSE IF HasLiteral(s, i, <<"f", "a", "l", "s", "e">>)
          THEN Parsed([k |-> "bool", v |-> <<"false">>], i+5)
     ELSE ParseFailure

\* the members of an object, s[i] being the first character of a key
ParseMembers(s, i, acc) ==
  IF i > Len(s) \/ s[i] # QUOTE THEN ParseFailure
  ELSE LET key == ParseString(s, i)
       IN IF ~key.ok THEN ParseFailure
          ELSE LET c == SkipWs(s, key.next)
               IN IF c > Len(s) \/ s[c] # ":" THEN ParseFailure
                  ELSE LET val == ParseValue(s, c+1)
                       IN IF ~val.ok THEN ParseFailure
                          ELSE LET e == SkipWs(s, val.next)
                                   members == Append(acc, <<key.val.v, val.val>>)
                               IN IF e > Len(s) THEN ParseFailure
                                  ELSE IF s[e] = "}"
                                       THEN Parsed([k |-> "obj", v |-> members], e+1)
                                  ELSE IF s[e] = ","
                                       THEN ParseMembers(s, SkipWs(s, e+1), members)
                                  ELSE ParseFailure

\* JSON.parse(data) of line 127: ok is FALSE where it throws SyntaxError
JSONParse(s) ==
  LET r == ParseValue(s, 1)
  IN IF r.ok /\ SkipWs(s, r.next) = Len(s) + 1 THEN r ELSE ParseFailure

\* TypeThrows with optional chaining (event?.type): null does not throw
TypeThrows_Never(event) == FALSE

\* event.type of line 128: throws TypeError on null, the value of the last
\* member named type on an object, undefined on everything else
TypeThrows(event) == event.k = "null"
TypeOf(event) ==
  IF event.k # "obj" THEN UNDEF
  ELSE LET hits == {m \in 1..Len(event.v) : event.v[m][1] = TypeKey}
       IN IF hits = {} THEN UNDEF
          ELSE event.v[CHOOSE m \in hits : \A n \in hits : n <= m][2]

\* ------------------------------------------------------ response bodies
EventText(c) ==
  <<"{", QUOTE, "t", "y", "p", "e", QUOTE, ":", QUOTE, c, QUOTE, "}">>
Record(payload) == DataPrefix \o payload \o <<NL>>

\* two events, each record terminated by a newline
BodyTwoEvents == Record(EventText("a")) \o Record(EventText("b"))
\* the last record has no trailing newline
BodyUnterminated == Record(EventText("a")) \o DataPrefix \o EventText("c")
\* a record whose payload is not JSON, then a valid one
BodyMalformed == Record(<<"{", "x">>) \o Record(EventText("b"))
\* a record whose payload is JSON followed by junk, then a valid one
BodyTrailingJunk == Record(<<"1", "x">>) \o Record(<<"2">>)
\* a record that does not start with the prefix, then a valid one
BodyNoPrefix == <<"x">> \o Record(<<"1">>) \o Record(EventText("a"))
\* payloads null and {} (an object with no type member)
BodyNull == Record(<<"n", "u", "l", "l">>) \o Record(<<"{", "}">>)
\* a string payload holding one two-byte character
BodyMultiByte == Record(<<QUOTE, "C3", "A9", QUOTE>>)

\* the response bodies the server may send to a call running alone
Bodies ==
  { <<>>, BodyTwoEvents, BodyUnterminated, BodyMalformed, BodyTrailingJunk,
    BodyNoPrefix, BodyNull, BodyMultiByte }
\* the response bodies the server may send to two concurrent calls
BodiesConc == { Record(<<"1">>), Record(<<"{", "}">>) }

\* the response body of the call that runs beside the other operations
BodiesReq == { Record(<<"x">>) \o Record(<<"1">>) }

\* ------------------------------------------------- configuration, requests
\* a variable of the environment that is not set, and the null default of
\* the sharedSecret parameters
NoValue == "<undefined>"
NullSecret == "<null>"
\* the values JavaScript takes for false in || (line 7) and if (line 15)
Falsy(v) == v \in {NoValue, NullSecret, ""}

LocalDevBase == "http://localhost:8001"
\* a variant of ResolveBase with the two defaults exchanged
ResolveBase_Swapped(e) ==
  IF ~Falsy(e.VITE_API_BASE) THEN e.VITE_API_BASE
  ELSE IF e.PROD THEN LocalDevBase ELSE ""
\* lines 7-8: VITE_API_BASE || (PROD ? '' : 'http://localhost:8001')
ResolveBase(e) ==
  IF ~Falsy(e.VITE_API_BASE) THEN e.VITE_API_BASE
  ELSE IF e.PROD THEN "" ELSE LocalDevBase

\* the environments of the build
Envs == [VITE_API_BASE : {NoValue, "", "https://api.example"}, PROD : BOOLEAN]
DefaultEnv == [VITE_API_BASE |-> NoValue, PROD |-> FALSE]

\* a variant of GetHeaders without the test of line 15
GetHeaders_Untested(sharedSecret) ==
  ("Content-Type" :> "application/json")
    @@ ("X-Shared-Secret" :> sharedSecret)
\* lines 11-19: getHeaders(sharedSecret)
GetHeaders(sharedSecret) ==
  IF ~Falsy(sharedSecret)
  THEN ("Content-Type" :> "application/json")
         @@ ("X-Shared-Secret" :> sharedSecret)
  ELSE ("Content-Type" :> "application/json")

\* JSON.stringify of a string: quoted, with ", \ and newline escaped
RECURSIVE EscapeText(_)
EscapeText(text) ==
  IF text = <<>> THEN <<>>
  ELSE (IF Head(text) \in {QUOTE, "\\"} THEN <<"\\", Head(text)>>
        ELSE IF Head(text) = NL THEN <<"\\", "n">>
        ELSE <<Head(text)>>) \o EscapeText(Tail(text))
ContentKey == <<"c", "o", "n", "t", "e", "n", "t">>
\* JSON.stringify({ content }) of lines 82 and 105
StringifyContent(content) ==
  <<"{", QUOTE>> \o ContentKey \o <<QUOTE, ":", QUOTE>>
    \o EscapeText(content) \o <<QUOTE, "}">>
\* JSON.stringify({}) of line 44
StringifyEmpty == <<"{", "}">>

\* the request fetch(url, init) issues: GET and no body unless init says
\* otherwise; the url is the base address followed by the path segments
MakeRequest(base, path, init) ==
  [method |-> IF "method" \in DOMAIN init THEN init.method ELSE "GET",
   base |-> base,
   path |-> path,
   headers |-> init.headers,
   hasBody |-> "body" \in DOMAIN init,
   body |-> IF "body" \in DOMAIN init THEN init.body ELSE <<>>]
NoRequest ==
  [method |-> "", base |-> "", path |-> <<>>, headers |-> <<>>,
   hasBody |-> FALSE, body |-> <<>>]

\* the arguments the application calls the operations with
ConversationIds == {"c1", "c2"}
Contents == {<<"h", "i">>, <<"y", "o">>}
Secrets == {NullSecret, "", "s1", "s2"}
NoArgs == [id |-> "", content |-> <<>>, secret |-> NullSecret]
Args(ids, contents) == [id : ids, content : contents, secret : Secrets]

\* the request/response operations and the message of the error of each
OpFailure(name) ==
  CASE name = "listConversations" -> "Failed to list conversations"
    [] name = "createConversation" -> "Failed to create conversation"
    [] name = "getConversation" -> "Failed to get conversation"
    [] name = "sendMessage" -> "Failed to send message"
\* the message of the error of sendMessageStream, line 110
StreamFailure == "Failed to send message"

\* the invocations of request/response operations the application may make
OpSlots == {1}
\* the texts of the response bodies of these operations
ResponseTexts == { <<"{", "}">>, <<"{", "x">> }
IdleOp ==
  [name |-> "", args |-> NoArgs, pc |-> "start", requests |-> 0,
   request |-> NoRequest, responseOk |-> "none", body |-> <<>>,
   result |-> UNDEF, failure |-> ""]

\* ------------------------------------------------------------- state
VARIABLES
  callers,    \* the calls the embedding application makes
  running,    \* the call whose code runs on the JavaScript thread, 0 if none
  pc,         \* per call: start, fetch, read, lines, onEvent, resolved, rejected
  requests,   \* per call: HTTP requests issued by fetch
  reads,      \* per call: reader.read() calls issued
  hasReader,  \* per call: response.body.getReader() was called
  rest,       \* per call: bytes of the response body not yet delivered
  received,   \* per call: the chunks delivered by reader.read(), in order
  lines,      \* per call: the split lines of the chunk being processed
  idx,        \* per call: position of the for loop in lines
  log,        \* per call: the onEvent invocations made, in order
  cbActive,   \* per call: onEvent invocations entered and not yet returned
  errors,     \* per call: console.error calls of the catch block
  failure,    \* per call: the error the call rejected with, "" if none
  responseOk, \* per call: response.ok of the fetch response, "none" before it
  readFailed, \* per call: a reader.read() promise rejected
  doneSeen,   \* per call: a read resolved with done = true
  stalled,    \* per call: the server has stopped sending
  env,        \* import.meta.env of the build
  apiBase,    \* API_BASE, resolved when the module is loaded
  args,       \* per call: conversationId, content and sharedSecret
  request,    \* per call: the request its fetch issued
  opCallers,  \* the request/response invocations the application makes
  op          \* per invocation: operation, arguments, progress and outcome

vars == <<callers, running, pc, requests, reads, hasReader, rest, received,
          lines, idx, log, cbActive, errors, failure, responseOk, readFailed,
          doneSeen, stalled, env, apiBase, args, request, opCallers, op>>

\* the chunks one body may be cut into
ChunkCap ==
  IF opCallers # {} THEN MaxChunksReq
  ELSE IF Cardinality(callers) > 1 THEN MaxChunksConc ELSE MaxChunks

InitCall ==
  /\ running = 0
  /\ pc = [c \in Calls |-> "start"]
  /\ requests = [c \in Calls |-> 0]
  /\ reads = [c \in Calls |-> 0]
  /\ hasReader = [c \in Calls |-> FALSE]
  /\ received = [c \in Calls |-> <<>>]
  /\ lines = [c \in Calls |-> <<>>]
  /\ idx = [c \in Calls |-> 1]
  /\ log = [c \in Calls |-> <<>>]
  /\ cbActive = [c \in Calls |-> 0]
  /\ errors = [c \in Calls |-> 0]
  /\ failure = [c \in Calls |-> ""]
  /\ responseOk = [c \in Calls |-> "none"]
  /\ readFailed = [c \in Calls |-> FALSE]
  /\ doneSeen = [c \in Calls |-> FALSE]
  /\ stalled = [c \in Calls |-> FALSE]
  /\ apiBase = ResolveBase(env)
  /\ request = [c \in Calls |-> NoRequest]
  /\ op = [k \in OpSlots |-> IdleOp]

\* the configuration and the arguments held fixed
InitDefaults ==
  /\ env = DefaultEnv
  /\ args = [c \in Calls |-> [id |-> "c1", content |-> <<"h", "i">>,
                              secret |-> NullSecret]]
  /\ opCallers = {}

\* one call of sendMessageStream
Init ==
  /\ callers = {1}
  /\ \E b \in Bodies : rest = [c \in Calls |-> IF c = 1 THEN b ELSE <<>>]
  /\ InitDefaults
  /\ InitCall

\* two concurrent calls of sendMessageStream
InitConc ==
  /\ callers = Calls
  /\ rest \in [Calls -> BodiesConc]
  /\ InitDefaults
  /\ InitCall

\* one call of sendMessageStream beside one request/response operation, in
\* any environment, with any arguments
InitReq ==
  /\ callers = {1}
  /\ opCallers = OpSlots
  /\ \E b \in BodiesReq : rest = [c \in Calls |-> IF c = 1 THEN b ELSE <<>>]
  /\ env \in Envs
  /\ \E a \in Args(ConversationIds, Contents) :
       args = [c \in Calls |-> IF c = 1 THEN a ELSE NoArgs]
  /\ InitCall

\* ----------------------------------------------------------- actions
\* lines 99-107: the caller invokes sendMessageStream, which issues the one
\* POST request and suspends at await fetch
SendMessageStream(c) ==
  /\ running = 0
  /\ c \in callers
  /\ pc[c] = "start"
  /\ requests' = [requests EXCEPT ![c] = @ + 1]
  /\ request' = [request EXCEPT ![c] =
       MakeRequest(apiBase,
                   <<"api", "conversations", args[c].id, "message", "stream">>,
                   [method |-> "POST",
                    headers |-> GetHeaders(args[c].secret),
                    body |-> StringifyContent(args[c].content)])]
  /\ pc' = [pc EXCEPT ![c] = "fetch"]
  /\ UNCHANGED <<callers, running, reads, hasReader, rest, received, lines,
                 idx, log, cbActive, errors, failure, doneSeen, stalled,
                 responseOk, readFailed,
                 env, apiBase, args, opCallers, op>>

\* FetchNotOk without the test of response.ok: the body is read all the same
FetchNotOk_StatusIgnored(c) ==
  /\ running = 0
  /\ pc[c] = "fetch"
  /\ responseOk' = [responseOk EXCEPT ![c] = "false"]
  /\ hasReader' = [hasReader EXCEPT ![c] = TRUE]
  /\ reads' = [reads EXCEPT ![c] = @ + 1]
  /\ pc' = [pc EXCEPT ![c] = "read"]
  /\ UNCHANGED <<callers, running, requests, rest, received, lines, idx,
                 log, cbActive, errors, failure, doneSeen, stalled,
                 readFailed,
                 env, apiBase, args, request, opCallers, op>>

\* lines 109-111: the response arrives with a non-success status
FetchNotOk(c) ==
  /\ running = 0
  /\ pc[c] = "fetch"
  /\ responseOk' = [responseOk EXCEPT ![c] = "false"]
  /\ pc' = [pc EXCEPT ![c] = "rejected"]
  /\ failure' = [failure EXCEPT ![c] = StreamFailure]
  /\ UNCHANGED <<callers, running, requests, reads, hasReader, rest,
                 received, lines, idx, log, cbActive, errors, doneSeen,
                 stalled,
                 readFailed,
                 env, apiBase, args, request, opCallers, op>>

\* lines 109-117: the response arrives with a success status; the reader and
\* the decoder are created and the first read is issued
FetchOk(c) ==
  /\ running = 0
  /\ pc[c] = "fetch"
  /\ responseOk' = [responseOk EXCEPT ![c] = "true"]
  /\ hasReader' = [hasReader EXCEPT ![c] = TRUE]
  /\ reads' = [reads EXCEPT ![c] = @ + 1]
  /\ pc' = [pc EXCEPT ![c] = "read"]
  /\ UNCHANGED <<callers, running, requests, rest, received, lines, idx,
                 log, cbActive, errors, failure, doneSeen, stalled,
                 readFailed,
                 env, apiBase, args, request, opCallers, op>>

\* ReadChunk with a remainder kept in a variable of the module, shared by
\* the calls, and put in front of the next chunk of whichever call reads
ReadChunk_SharedRemainder(c) ==
  /\ running = 0
  /\ pc[c] = "read"
  /\ ~stalled[c]
  /\ \E n \in 1..Len(rest[c]) :
       /\ Len(received[c]) + 1 < ChunkCap \/ n = Len(rest[c])
       /\ received' = [received EXCEPT ![c] = Append(@, SubSeq(rest[c], 1, n))]
       /\ rest' = [rest EXCEPT ![c] = SubSeq(@, n+1, Len(@))]
       /\ LET o == CHOOSE d \in Calls : d # c
              kept == IF lines[o] = <<>> THEN <<>> ELSE lines[o][Len(lines[o])]
          IN lines' = [lines EXCEPT ![c] =
                         Split(kept \o Decode(SubSeq(rest[c], 1, n)))]
  /\ idx' = [idx EXCEPT ![c] = 1]
  /\ pc' = [pc EXCEPT ![c] = "lines"]
  /\ running' = c
  /\ UNCHANGED <<callers, requests, reads, hasReader, log, cbActive, errors,
                 failure, doneSeen, stalled, responseOk, readFailed,
                 env, apiBase, args, request, opCallers, op>>

\* lines 117-121: a read resolves with a chunk of n bytes, which is decoded
\* and split
ReadChunk(c) ==
  /\ running = 0
  /\ pc[c] = "read"
  /\ ~stalled[c]
  /\ \E n \in 1..Len(rest[c]) :
       /\ Len(received[c]) + 1 < ChunkCap \/ n = Len(rest[c])
       /\ received' = [received EXCEPT ![c] = Append(@, SubSeq(rest[c], 1, n))]
       /\ rest' = [rest EXCEPT ![c] = SubSeq(@, n+1, Len(@))]
       /\ lines' = [lines EXCEPT ![c] = Split(Decode(SubSeq(rest[c], 1, n)))]
  /\ idx' = [idx EXCEPT ![c] = 1]
  /\ pc' = [pc EXCEPT ![c] = "lines"]
  /\ running' = c
  /\ UNCHANGED <<callers, requests, reads, hasReader, log, cbActive, errors,
                 failure, doneSeen, stalled,
                 responseOk, readFailed,
                 env, apiBase, args, request, opCallers, op>>

\* ReadDone of a loop that does not stop reading once done was signalled:
\* the exhausted reader is read again
ReadDone_Reread(c) ==
  /\ running = 0
  /\ pc[c] \in {"read", "resolved"}
  /\ ~stalled[c]
  /\ rest[c] = <<>>
  /\ doneSeen' = [doneSeen EXCEPT ![c] = TRUE]
  /\ reads' = [reads EXCEPT ![c] = IF pc[c] = "resolved" THEN @ + 1 ELSE @]
  /\ pc' = [pc EXCEPT ![c] = "resolved"]
  /\ UNCHANGED <<callers, running, requests, hasReader, rest, received,
                 lines, idx, log, cbActive, errors, failure, stalled,
                 responseOk, readFailed,
                 env, apiBase, args, request, opCallers, op>>

\* lines 117-118: a read resolves with done, the loop breaks and the call
\* resolves
ReadDone(c) ==
  /\ running = 0
  /\ pc[c] = "read"
  /\ ~stalled[c]
  /\ rest[c] = <<>>
  /\ doneSeen' = [doneSeen EXCEPT ![c] = TRUE]
  /\ pc' = [pc EXCEPT ![c] = "resolved"]
  /\ UNCHANGED <<callers, running, requests, reads, hasReader, rest,
                 received, lines, idx, log, cbActive, errors, failure,
                 stalled,
                 responseOk, readFailed,
                 env, apiBase, args, request, opCallers, op>>

\* ReadError with a retry: the rejected read is caught and the request is
\* issued again
ReadError_Retry(c) ==
  /\ running = 0
  /\ pc[c] = "read"
  /\ ~stalled[c]
  /\ readFailed' = [readFailed EXCEPT ![c] = TRUE]
  /\ requests' = [requests EXCEPT ![c] = @ + 1]
  /\ pc' = [pc EXCEPT ![c] = "fetch"]
  /\ UNCHANGED <<callers, running, reads, hasReader, rest, received, lines,
                 idx, log, cbActive, errors, failure, doneSeen, stalled,
                 responseOk,
                 env, apiBase, args, request, opCallers, op>>

\* line 117: a read rejects; nothing catches it, the call rejects with it
ReadError(c) ==
  /\ running = 0
  /\ pc[c] = "read"
  /\ ~stalled[c]
  /\ readFailed' = [readFailed EXCEPT ![c] = TRUE]
  /\ pc' = [pc EXCEPT ![c] = "rejected"]
  /\ failure' = [failure EXCEPT ![c] = "StreamReadError"]
  /\ UNCHANGED <<callers, running, requests, reads, hasReader, rest,
                 received, lines, idx, log, cbActive, errors, doneSeen,
                 stalled,
                 responseOk,
                 env, apiBase, args, request, opCallers, op>>

\* the server stops sending: the pending read never settles
Stall(c) ==
  /\ pc[c] = "read"
  /\ ~stalled[c]
  /\ stalled' = [stalled EXCEPT ![c] = TRUE]
  /\ UNCHANGED <<callers, running, pc, requests, reads, hasReader, rest,
                 received, lines, idx, log, cbActive, errors, failure,
                 doneSeen,
                 responseOk, readFailed,
                 env, apiBase, args, request, opCallers, op>>

\* the for loop of line 123 is at a line
AtLine(c) == running = c /\ pc[c] = "lines" /\ idx[c] <= Len(lines[c])
CurLine(c) == lines[c][idx[c]]
NextIdx(c) == [idx EXCEPT ![c] = @ + 1]

\* line 124: the line does not start with 'data: ' and is passed over
SkipLine(c) ==
  /\ AtLine(c)
  /\ ~StartsWith(CurLine(c), DataPrefix)
  /\ idx' = NextIdx(c)
  /\ UNCHANGED <<callers, running, pc, requests, reads, hasReader, rest,
                 received, lines, log, cbActive, errors, failure, doneSeen,
                 stalled,
                 responseOk, readFailed,
                 env, apiBase, args, request, opCallers, op>>

\* lines 125-131: JSON.parse throws, or event.type throws on null; the catch
\* block logs and the loop goes on
ParseFail(c) ==
  /\ AtLine(c)
  /\ StartsWith(CurLine(c), DataPrefix)
  /\ LET r == JSONParse(Slice(CurLine(c), PrefixLen))
     IN ~r.ok \/ TypeThrows(r.val)
  /\ errors' = [errors EXCEPT ![c] = @ + 1]
  /\ idx' = NextIdx(c)
  /\ UNCHANGED <<callers, running, pc, requests, reads, hasReader, rest,
                 received, lines, log, cbActive, failure, doneSeen, stalled,
                 responseOk, readFailed,
                 env, apiBase, args, request, opCallers, op>>

\* lines 125-128: the payload parses and onEvent(event.type, event) is
\* entered
Dispatch(c) ==
  /\ AtLine(c)
  /\ StartsWith(CurLine(c), DataPrefix)
  /\ LET r == JSONParse(Slice(CurLine(c), PrefixLen))
     IN /\ r.ok
        /\ ~TypeThrows(r.val)
        /\ log' = [log EXCEPT ![c] =
                     Append(@, [type |-> TypeOf(r.val), event |-> r.val,
                                chunk |-> Len(received[c]), line |-> idx[c]])]
  /\ cbActive' = [cbActive EXCEPT ![c] = @ + 1]
  /\ pc' = [pc EXCEPT ![c] = "onEvent"]
  /\ UNCHANGED <<callers, running, requests, reads, hasReader, rest,
                 received, lines, idx, errors, failure, doneSeen, stalled,
                 responseOk, readFailed,
                 env, apiBase, args, request, opCallers, op>>

\* line 128: onEvent returns and the loop goes on
CallbackReturn(c) ==
  /\ running = c
  /\ pc[c] = "onEvent"
  /\ cbActive' = [cbActive EXCEPT ![c] = @ - 1]
  /\ idx' = NextIdx(c)
  /\ pc' = [pc EXCEPT ![c] = "lines"]
  /\ UNCHANGED <<callers, running, requests, reads, hasReader, rest,
                 received, lines, log, errors, failure, doneSeen, stalled,
                 responseOk, readFailed,
                 env, apiBase, args, request, opCallers, op>>

\* CallbackThrow with onEvent called outside the try block: the exception
\* leaves the loop and rejects the call
CallbackThrow_Propagates(c) ==
  /\ running = c
  /\ pc[c] = "onEvent"
  /\ cbActive' = [cbActive EXCEPT ![c] = @ - 1]
  /\ failure' = [failure EXCEPT ![c] = "CallbackError"]
  /\ pc' = [pc EXCEPT ![c] = "rejected"]
  /\ running' = 0
  /\ UNCHANGED <<callers, requests, reads, hasReader, rest, received, lines,
                 idx, log, errors, doneSeen, stalled, responseOk,
                 readFailed,
                 env, apiBase, args, request, opCallers, op>>

\* lines 128-131: onEvent throws; the catch block logs and the loop goes on
CallbackThrow(c) ==
  /\ running = c
  /\ pc[c] = "onEvent"
  /\ cbActive' = [cbActive EXCEPT ![c] = @ - 1]
  /\ errors' = [errors EXCEPT ![c] = @ + 1]
  /\ idx' = NextIdx(c)
  /\ pc' = [pc EXCEPT ![c] = "lines"]
  /\ UNCHANGED <<callers, running, requests, reads, hasReader, rest,
                 received, lines, log, failure, doneSeen, stalled,
                 responseOk, readFailed,
                 env, apiBase, args, request, opCallers, op>>

\* LoopEnd taken before the for loop is over: the next read is issued while
\* lines of the chunk are still to be processed
LoopEnd_Early(c) ==
  /\ running = c
  /\ pc[c] = "lines"
  /\ reads' = [reads EXCEPT ![c] = @ + 1]
  /\ pc' = [pc EXCEPT ![c] = "read"]
  /\ running' = 0
  /\ UNCHANGED <<callers, requests, hasReader, rest, received, lines, idx,
                 log, cbActive, errors, failure, doneSeen, stalled,
                 responseOk, readFailed,
                 env, apiBase, args, request, opCallers, op>>

\* LoopEnd that leaves the while loop once the body is exhausted, without
\* waiting for the read that signals done
LoopEnd_Break(c) ==
  /\ running = c
  /\ pc[c] = "lines"
  /\ idx[c] > Len(lines[c])
  /\ reads' = [reads EXCEPT ![c] = IF rest[c] = <<>> THEN @ ELSE @ + 1]
  /\ pc' = [pc EXCEPT ![c] = IF rest[c] = <<>> THEN "resolved" ELSE "read"]
  /\ running' = 0
  /\ UNCHANGED <<callers, requests, hasReader, rest, received, lines, idx,
                 log, cbActive, errors, failure, doneSeen, stalled,
                 responseOk, readFailed,
                 env, apiBase, args, request, opCallers, op>>

\* lines 123, 116-117: the for loop is over, the while loop issues the next
\* read and the call suspends
LoopEnd(c) ==
  /\ running = c
  /\ pc[c] = "lines"
  /\ idx[c] > Len(lines[c])
  /\ reads' = [reads EXCEPT ![c] = @ + 1]
  /\ pc' = [pc EXCEPT ![c] = "read"]
  /\ running' = 0
  /\ UNCHANGED <<callers, requests, hasReader, rest, received, lines, idx,
                 log, cbActive, errors, failure, doneSeen, stalled,
                 responseOk, readFailed,
                 env, apiBase, args, request, opCallers, op>>

\* -------------------------------------- the request/response operations
OpUnchanged ==
  UNCHANGED <<callers, running, pc, requests, reads, hasReader, rest,
              received, lines, idx, log, cbActive, errors, failure,
              responseOk, readFailed, doneSeen, stalled, env, apiBase, args,
              request, opCallers>>

\* an operation is invoked: it issues its one request, fetch(url, init)
Invoke(k, name, a, path, init) ==
  /\ running = 0
  /\ k \in opCallers
  /\ op[k].pc = "start"
  /\ op' = [op EXCEPT ![k] =
       [@ EXCEPT !.name = name, !.args = a, !.pc = "fetch",
                 !.requests = @ + 1,
                 !.request = MakeRequest(apiBase, path, init)]]
  /\ OpUnchanged

\* lines 26-29: listConversations(sharedSecret)
ListConversations(k) ==
  \E a \in Args({""}, {<<>>}) :
    Invoke(k, "listConversations", a, <<"api", "conversations">>,
           [headers |-> GetHeaders(a.secret)])

\* lines 40-45: createConversation(sharedSecret)
CreateConversation(k) ==
  \E a \in Args({""}, {<<>>}) :
    Invoke(k, "createConversation", a, <<"api", "conversations">>,
           [method |-> "POST", headers |-> GetHeaders(a.secret),
            body |-> StringifyEmpty])

\* lines 57-63: getConversation(conversationId, sharedSecret)
GetConversation(k) ==
  \E a \in Args(ConversationIds, {<<>>}) :
    Invoke(k, "getConversation", a, <<"api", "conversations", a.id>>,
           [headers |-> GetHeaders(a.secret)])

\* a variant of SendMessage that posts to the path of the conversation
SendMessage_ConversationPath(k) ==
  \E a \in Args(ConversationIds, Contents) :
    Invoke(k, "sendMessage", a, <<"api", "conversations", a.id>>,
           [method |-> "POST", headers |-> GetHeaders(a.secret),
            body |-> StringifyContent(a.content)])
\* lines 76-84: sendMessage(conversationId, content, sharedSecret)
SendMessage(k) ==
  \E a \in Args(ConversationIds, Contents) :
    Invoke(k, "sendMessage", a,
           <<"api", "conversations", a.id, "message">>,
           [method |-> "POST", headers |-> GetHeaders(a.secret),
            body |-> StringifyContent(a.content)])

\* lines 30-32, 46-48, 64-66, 85-87: the response is not ok, the operation
\* throws its error
OpNotOk(k) ==
  /\ running = 0
  /\ op[k].pc = "fetch"
  /\ op' = [op EXCEPT ![k] =
       [@ EXCEPT !.pc = "rejected", !.responseOk = "false",
                 !.failure = OpFailure(op[k].name)]]
  /\ OpUnchanged

\* lines 33, 49, 67, 88: the response is ok and its body is JSON, the
\* operation returns the parsed value
OpOk(k) ==
  /\ running = 0
  /\ op[k].pc = "fetch"
  /\ \E text \in ResponseTexts :
       /\ JSONParse(text).ok
       /\ op' = [op EXCEPT ![k] =
            [@ EXCEPT !.pc = "resolved", !.responseOk = "true",
                      !.body = text, !.result = JSONParse(text).val]]
  /\ OpUnchanged

\* lines 33, 49, 67, 88: the response is ok and its body is not JSON,
\* response.json() rejects and so does the operation
OpBadJson(k) ==
  /\ running = 0
  /\ op[k].pc = "fetch"
  /\ \E text \in ResponseTexts :
       /\ ~JSONParse(text).ok
       /\ op' = [op EXCEPT ![k] =
            [@ EXCEPT !.pc = "rejected", !.responseOk = "true",
                      !.body = text, !.failure = "SyntaxError"]]
  /\ OpUnchanged

Next ==
  \E c \in Calls :
    \/ SendMessageStream(c)
    \/ FetchNotOk(c)
    \/ FetchOk(c)
    \/ ReadChunk(c)
    \/ ReadDone(c)
    \/ ReadError(c)
    \/ Stall(c)
    \/ SkipLine(c)
    \/ ParseFail(c)
    \/ Dispatch(c)
    \/ CallbackReturn(c)
    \/ CallbackThrow(c)
    \/ LoopEnd(c)

\* the steps of call c: its own code and the server's answers to it
Step(c) ==
  \/ SendMessageStream(c) \/ FetchNotOk(c) \/ FetchOk(c) \/ ReadChunk(c)
  \/ ReadDone(c) \/ ReadError(c) \/ Stall(c) \/ SkipLine(c) \/ ParseFail(c)
  \/ Dispatch(c) \/ CallbackReturn(c) \/ CallbackThrow(c) \/ LoopEnd(c)

\* the steps of the streaming call and of the request/response operations
NextReq ==
  \/ Next
  \/ \E k \in OpSlots :
       \/ ListConversations(k)
       \/ CreateConversation(k)
       \/ GetConversation(k)
       \/ SendMessage(k)
       \/ OpNotOk(k)
       \/ OpOk(k)
       \/ OpBadJson(k)

Spec == Init /\ [][Next]_vars
ConcSpec == InitConc /\ [][Next]_vars
ReqSpec == InitReq /\ [][NextReq]_vars
\* ENABLED <<Step(c)>>_vars written out: the call can be invoked, its fetch
\* can be answered, its read can be answered by a server that has not
\* stalled, or its code holds the thread
CanStep(c) ==
  \/ running = 0 /\ c \in callers /\ pc[c] = "start"
  \/ running = 0 /\ pc[c] = "fetch"
  \/ running = 0 /\ pc[c] = "read" /\ ~stalled[c]
  \/ running = c /\ pc[c] \in {"lines", "onEvent"}

\* weak fairness of the steps of each call, WF_vars(Step(c)) with its ENABLED
\* written out as CanStep(c): the event loop runs every continuation that is
\* ready, and a server that has not stalled (Stall) answers every pending
\* fetch and read
FairSpec ==
  /\ Init /\ [][Next]_vars
  /\ \A c \in Calls : []<>(~CanStep(c)) \/ []<><<Step(c)>>_vars

TypeOK ==
  /\ running \in {0} \cup Calls
  /\ \A c \in Calls :
       pc[c] \in {"start", "fetch", "read", "lines", "onEvent", "resolved",
                  "rejected"}

\* ---------------------------------------------- vocabulary of the claims
RECURSIVE Flatten(_)
Flatten(chunks) ==
  IF chunks = <<>> THEN <<>> ELSE Head(chunks) \o Flatten(Tail(chunks))

\* the text the call has decoded so far, chunk by chunk
RECURSIVE DecodedText(_)
DecodedText(chunks) ==
  IF chunks = <<>> THEN <<>>
  ELSE Decode(Head(chunks)) \o DecodedText(Tail(chunks))

\* the events a sequence of lines yields: one per line that starts with the
\* prefix and whose payload parses to a value other than null
RECURSIVE EventsOfLines(_)
EventsOfLines(ls) ==
  IF ls = <<>> THEN <<>>
  ELSE LET r == JSONParse(Slice(Head(ls), PrefixLen))
       IN (IF StartsWith(Head(ls), DataPrefix) /\ r.ok /\ ~TypeThrows(r.val)
           THEN <<r.val>> ELSE <<>>) \o EventsOfLines(Tail(ls))

\* the events of a text that arrives as one chunk
EventsOfBytes(bytes) == EventsOfLines(Split(Decode(bytes)))

\* the events of a call that receives these chunks and runs alone
RECURSIVE EventsOfChunks(_)
EventsOfChunks(chunks) ==
  IF chunks = <<>> THEN <<>>
  ELSE EventsOfBytes(Head(chunks)) \o EventsOfChunks(Tail(chunks))

LogEvents(c) == [i \in 1..Len(log[c]) |-> log[c][i].event]

\* the whole response body of a call
BodyOf(c) == Flatten(received[c]) \o rest[c]

AllButLast(ls) == SubSeq(ls, 1, Len(ls) - 1)
Last(ls) == ls[Len(ls)]

\* the records of a text: its newline-terminated lines
RecordsOf(text) == AllButLast(Split(text))
\* the text after the last newline
Remainder(text) == Last(Split(text))

\* the position in a text of the first character of line i of its split
RECURSIVE LineStart(_, _)
LineStart(ls, i) ==
  IF i = 1 THEN 1 ELSE LineStart(ls, i-1) + Len(ls[i-1]) + 1

\* the position, in the text decoded so far, of the line onEvent invocation
\* e of call c was made for
PosOf(c, e) ==
  Len(DecodedText(SubSeq(received[c], 1, e.chunk - 1)))
    + LineStart(Split(Decode(received[c][e.chunk])), e.line)

\* the position of the last newline of a text before position p, 0 if none
LastNewlineBefore(text, p) ==
  LET nls == {i \in 1..(p-1) : i <= Len(text) /\ text[i] = NL}
  IN IF nls = {} THEN 0 ELSE CHOOSE i \in nls : \A j \in nls : j <= i

\* a valid event payload: JSON for an object
IsEventPayload(data) == JSONParse(data).ok /\ JSONParse(data).val.k = "obj"

\* a text of N newline-terminated 'data: <JSON object>' records
IsEventText(text) ==
  /\ Remainder(text) = <<>>
  /\ \A i \in 1..Len(RecordsOf(text)) :
       /\ StartsWith(RecordsOf(text)[i], DataPrefix)
       /\ IsEventPayload(Slice(RecordsOf(text)[i], PrefixLen))

\* ----------------------------------------------------------------- C1
\* C1: however the text of N newline-terminated 'data: <JSON object>'
\* records is cut into chunks, a call that has drained the stream has invoked
\* onEvent exactly N times, with the events, in the order, of the same text
\* arriving as one chunk.
C1_ChunkingIndependent ==
  \A c \in Calls :
    (pc[c] = "resolved" /\ IsEventText(Decode(BodyOf(c))))
      => LogEvents(c) = EventsOfBytes(BodyOf(c))

\* ----------------------------------------------------------------- C2
\* C2: the last split segment of a chunk is not treated as a record (no
\* event is dispatched for it); it is carried over, so that the first line
\* processed for the next chunk is the text after the last newline received
\* before that chunk followed by the first segment of the chunk.
C2_PendingBufferCarried ==
  \A c \in Calls :
    /\ pc[c] = "onEvent" => idx[c] < Len(lines[c])
    /\ (pc[c] \in {"lines", "onEvent"} /\ Len(received[c]) > 1)
         => lines[c][1] =
              Remainder(DecodedText(AllButLast(received[c])))
                \o Split(Decode(Last(received[c])))[1]

\* ----------------------------------------------------------------- C3
\* C3: when the stream has ended, no onEvent invocation was made for text
\* that follows the last newline of the stream (the record without a
\* trailing newline is never delivered).
C3_UnterminatedDiscarded ==
  \A c \in Calls :
    pc[c] = "resolved" =>
      \A i \in 1..Len(log[c]) :
        PosOf(c, log[c][i])
          <= LastNewlineBefore(DecodedText(received[c]),
                               Len(DecodedText(received[c])) + 1)

\* ----------------------------------------------------------------- C4
\* the position of the first character of record r of a text
RecordStart(text, r) == LineStart(Split(text), r)
\* the onEvent invocations of call c made for text inside record r
EntriesIn(c, text, r) ==
  {i \in 1..Len(log[c]) :
     /\ PosOf(c, log[c][i]) >= RecordStart(text, r)
     /\ PosOf(c, log[c][i]) <= RecordStart(text, r) + Len(RecordsOf(text)[r])}
IsMalformed(rec) ==
  StartsWith(rec, DataPrefix) /\ ~JSONParse(Slice(rec, PrefixLen)).ok
IsValid(rec) ==
  /\ StartsWith(rec, DataPrefix)
  /\ JSONParse(Slice(rec, PrefixLen)).ok
  /\ ~TypeThrows(JSONParse(Slice(rec, PrefixLen)).val)

\* C4: a complete 'data: ' record whose payload is not JSON causes no
\* onEvent invocation and no failure of the call, and every valid record
\* after it is delivered, once, with its event.
C4_MalformedIsolated ==
  \A c \in Calls :
    pc[c] = "resolved" =>
      LET text == DecodedText(received[c])
          recs == RecordsOf(text)
      IN \A r \in 1..Len(recs) :
           IsMalformed(recs[r]) =>
             /\ EntriesIn(c, text, r) = {}
             /\ failure[c] = ""
             /\ \A q \in (r+1)..Len(recs) :
                  IsValid(recs[q]) =>
                    \E i \in 1..Len(log[c]) :
                      /\ EntriesIn(c, text, q) = {i}
                      /\ PosOf(c, log[c][i]) = RecordStart(text, q)
                      /\ log[c][i].event
                           = JSONParse(Slice(recs[q], PrefixLen)).val

\* ----------------------------------------------------------------- C5
\* C5: every onEvent invocation was made for text of a record that starts
\* with 'data: ', and a call fails only by the response status or by a read
\* error, never by the content of a record.
C5_NoPrefixNoEvent ==
  \A c \in Calls :
    /\ \A i \in 1..Len(log[c]) :
         LET text == DecodedText(received[c])
             start == LastNewlineBefore(text, PosOf(c, log[c][i])) + 1
         IN StartsWith(SubSeq(text, start, Len(text)), DataPrefix)
    /\ pc[c] = "rejected" => (responseOk[c] = "false" \/ readFailed[c])

\* ----------------------------------------------------------------- C6
\* C6: a call whose response has a non-success status is rejected with the
\* request-failed error, has never obtained the body reader, has issued no
\* read, has received no chunk and has invoked onEvent zero times.
C6_NotOkRejects ==
  \A c \in Calls :
    responseOk[c] = "false" =>
      /\ pc[c] = "rejected"
      /\ failure[c] = "Failed to send message"
      /\ ~hasReader[c]
      /\ reads[c] = 0
      /\ received[c] = <<>>
      /\ log[c] = <<>>
C6_Witness == responseOk[1] = "false" /\ requests[1] = 1

\* ----------------------------------------------------------------- C7
\* the invocations are in the order of arrival of their lines
LogInArrivalOrder(c) ==
  \A i, j \in 1..Len(log[c]) :
    i < j => \/ log[c][i].chunk < log[c][j].chunk
             \/ /\ log[c][i].chunk = log[c][j].chunk
                /\ log[c][i].line < log[c][j].line
\* the invocations made for the chunk being processed
EntriesOfChunk(c, k) == {i \in 1..Len(log[c]) : log[c][i].chunk = k}

\* C7: the onEvent invocations of a call are in the arrival order of their
\* records; at most one is running, a new one is entered only when the
\* previous one has returned, and it extends the sequence by one; a read is
\* requested only when no invocation is running and every event of the
\* chunk just processed has been delivered.
C7_CallbacksSequential ==
  /\ [](\A c \in Calls :
          /\ LogInArrivalOrder(c)
          /\ cbActive[c] \in {0, 1}
          /\ cbActive[c] = 1 <=> pc[c] = "onEvent")
  /\ [][\A c \in Calls :
          /\ log'[c] # log[c] =>
               /\ cbActive[c] = 0
               /\ Len(log'[c]) = Len(log[c]) + 1
               /\ SubSeq(log'[c], 1, Len(log[c])) = log[c]
          /\ reads'[c] # reads[c] =>
               /\ cbActive[c] = 0
               /\ Cardinality(EntriesOfChunk(c, Len(received[c])))
                    = Len(EventsOfLines(lines[c]))]_vars
C7_Witness ==
  /\ pc[1] = "read"
  /\ reads[1] = 3
  /\ Len(log[1]) = 2
  /\ log[1][1].chunk = 1
  /\ log[1][2].chunk = 2

\* ----------------------------------------------------------------- C8
\* C8: whenever a call of two concurrent calls is suspended or settled, the
\* events it has delivered are exactly those of its own chunks processed
\* alone, whatever the other call has read in between.
C8_CallsIndependent ==
  \A c \in Calls :
    pc[c] \in {"read", "resolved", "rejected"} =>
      LogEvents(c) = EventsOfChunks(received[c])
C8_Witness ==
  /\ callers = Calls
  /\ pc[1] = "read" /\ pc[2] = "read"
  /\ Len(received[1]) = 1 /\ Len(received[2]) = 1
  /\ rest[1] # <<>> /\ rest[2] # <<>>
  /\ Len(log[1]) = 1 /\ Len(log[2]) = 1

\* ----------------------------------------------------------------- C9
\* C9: a call one of whose reads failed is rejected with the read error; it
\* issues no read and no request and invokes onEvent for nothing from the
\* failed read on, its log stays as it was, and no call ever issues more
\* than one request.
C9_ReadErrorFatal ==
  /\ [](\A c \in Calls :
          /\ requests[c] <= 1
          /\ readFailed[c] =>
               (pc[c] = "rejected" /\ failure[c] = "StreamReadError"))
  /\ [][\A c \in Calls :
          readFailed'[c] =>
            /\ reads'[c] = reads[c]
            /\ requests'[c] = requests[c]
            /\ log'[c] = log[c]]_vars
C9_Witness == readFailed[1] /\ Len(log[1]) = 1 /\ rest[1] # <<>>

\* ---------------------------------------------------------------- C10
\* C10: a call is resolved only after a read has signalled done, with the
\* whole body delivered and no error; a call whose server has stalled stays
\* suspended at the read; and every call that has issued its request is
\* eventually resolved or rejected, or its server stalls.
C10_ResolvesAfterDone ==
  /\ [](\A c \in Calls :
          /\ pc[c] = "resolved" =>
               (doneSeen[c] /\ rest[c] = <<>> /\ failure[c] = "")
          /\ doneSeen[c] => pc[c] = "resolved"
          /\ stalled[c] => pc[c] = "read")
  /\ \A c \in Calls :
       (pc[c] = "fetch") ~>
          (pc[c] \in {"resolved", "rejected"} \/ stalled[c])
C10_Witness ==
  /\ pc[1] = "resolved" /\ doneSeen[1]
  /\ Len(received[1]) = 2 /\ Len(log[1]) = 2

\* ---------------------------------------------------------------- C11
\* C11: a chunk boundary inside a multi-byte character changes nothing to
\* the text of the records: the text a call has decoded when the stream has
\* ended is the decoding of the bytes of the body taken together, the two
\* bytes of a character cut in two being decoded as that one character.
C11_SplitCharacterDecoded ==
  \A c \in Calls :
    pc[c] = "resolved" => DecodedText(received[c]) = Decode(BodyOf(c))

\* ---------------------------------------------------------------- C12
\* the operations that have failed on a response that is not ok, each with
\* its name and the message of its error
StatusFailures ==
  { [name |-> "sendMessageStream", message |-> failure[c]] :
      c \in { d \in Calls : pc[d] = "rejected" /\ responseOk[d] = "false" } }
  \cup
  { [name |-> op[k].name, message |-> op[k].failure] :
      k \in { j \in OpSlots :
                op[j].pc = "rejected" /\ op[j].responseOk = "false" } }

\* C12: each of the five operations issues exactly one request; on a response
\* that is not ok it fails with an error that identifies the operation, so
\* that two different operations never fail with the same error; on a
\* response that is ok a request/response operation returns the parsed JSON
\* body.
C12_ErrorNamesOperation ==
  /\ \A c \in Calls : requests[c] = IF pc[c] = "start" THEN 0 ELSE 1
  /\ \A k \in OpSlots : op[k].requests = IF op[k].pc = "start" THEN 0 ELSE 1
  /\ \A c \in Calls : responseOk[c] = "false" => pc[c] = "rejected"
  /\ \A k \in OpSlots : op[k].responseOk = "false" => op[k].pc = "rejected"
  /\ \A f, g \in StatusFailures : f.message = g.message => f.name = g.name
  /\ \A k \in OpSlots :
       op[k].pc = "resolved" =>
         /\ op[k].responseOk = "true"
         /\ JSONParse(op[k].body).ok
         /\ op[k].result = JSONParse(op[k].body).val

\* ---------------------------------------------------------------- C13
\* the requests issued so far, each with the call that issued it, the name
\* of its operation and the arguments of the call
Issued ==
  { [call |-> <<"stream", c>>, name |-> "sendMessageStream",
     args |-> args[c], request |-> request[c]] :
      c \in { d \in Calls : pc[d] # "start" } }
  \cup
  { [call |-> <<"op", k>>, name |-> op[k].name, args |-> op[k].args,
     request |-> op[k].request] :
      k \in { j \in OpSlots : op[j].pc # "start" } }

\* a shared secret is configured for a call: one is given and it is not empty
SecretConfigured(secret) == secret # NullSecret /\ secret # ""

\* C13: every request carries Content-Type: application/json; it carries
\* X-Shared-Secret, with the secret of its call, if and only if a secret is
\* configured for that call, and no other header; the secret of one call is
\* never a header value of a request of another call that was not given it.
C13_Headers ==
  /\ \A r \in Issued :
       LET h == r.request.headers
       IN /\ "Content-Type" \in DOMAIN h
          /\ h["Content-Type"] = "application/json"
          /\ DOMAIN h \subseteq {"Content-Type", "X-Shared-Secret"}
          /\ "X-Shared-Secret" \in DOMAIN h <=> SecretConfigured(r.args.secret)
          /\ "X-Shared-Secret" \in DOMAIN h =>
               h["X-Shared-Secret"] = r.args.secret
  /\ \A r, q \in Issued :
       (/\ r.call # q.call
        /\ SecretConfigured(r.args.secret)
        /\ r.args.secret # q.args.secret) =>
         \A n \in DOMAIN q.request.headers :
           q.request.headers[n] # r.args.secret

\* the streaming call was given the secret s1 and a request/response
\* operation no secret, and both have issued their requests
C13_Witness ==
  /\ pc[1] # "start" /\ args[1].secret = "s1"
  /\ request[1].headers["X-Shared-Secret"] = "s1"
  /\ op[1].pc # "start" /\ op[1].args.secret = NullSecret
  /\ DOMAIN op[1].request.headers = {"Content-Type"}

\* ---------------------------------------------------------------- C14
\* the method and the path the claim gives each operation
MethodOf(name) ==
  IF name \in {"listConversations", "getConversation"} THEN "GET" ELSE "POST"
PathOf(name, id) ==
  CASE name \in {"listConversations", "createConversation"} ->
         <<"api", "conversations">>
    [] name = "getConversation" -> <<"api", "conversations", id>>
    [] name = "sendMessage" -> <<"api", "conversations", id, "message">>
    [] name = "sendMessageStream" ->
         <<"api", "conversations", id, "message", "stream">>

\* C14: every request has the method and the path of its operation, on the
\* base address, with the conversation id of its call; the requests of
\* sendMessage and sendMessageStream have a body that is the JSON text of an
\* object whose one member, content, is the text given to that call.
C14_MethodPathBody ==
  \A r \in Issued :
    /\ r.request.method = MethodOf(r.name)
    /\ r.request.path = PathOf(r.name, r.args.id)
    /\ r.request.base = apiBase
    /\ r.name \in {"sendMessage", "sendMessageStream"} =>
         /\ r.request.hasBody
         /\ JSONParse(r.request.body).ok
         /\ JSONParse(r.request.body).val =
              [k |-> "obj",
               v |-> << << <<"c", "o", "n", "t", "e", "n", "t">>,
                           [k |-> "str", v |-> r.args.content] >> >>]

\* sendMessage and sendMessageStream have both issued their requests, for
\* different conversations and with different texts
C14_Witness ==
  /\ pc[1] # "start" /\ args[1].id = "c1" /\ args[1].content = <<"h", "i">>
  /\ op[1].pc # "start" /\ op[1].name = "sendMessage"
  /\ op[1].args.id = "c2" /\ op[1].args.content = <<"y", "o">>
  /\ op[1].request.path = <<"api", "conversations", "c2", "message">>

\* ---------------------------------------------------------------- C15
\* C15: the base address is the configured value when one is configured (set
\* and not empty), else the empty prefix in production and
\* http://localhost:8001 in development; every request is sent to it, and it
\* never changes.
C15_BaseAddress ==
  /\ [](/\ apiBase =
             (IF env.VITE_API_BASE \notin {NoValue, ""}
              THEN env.VITE_API_BASE
              ELSE IF env.PROD THEN "" ELSE "http://localhost:8001")
        /\ \A r \in Issued : r.request.base = apiBase)
  /\ [][apiBase' = apiBase /\ env' = env]_vars

\* a production build without a configured address: both requests have gone
\* to the empty prefix
C15_Witness ==
  /\ env.VITE_API_BASE = NoValue /\ env.PROD
  /\ pc[1] # "start" /\ request[1].base = ""
  /\ op[1].pc # "start" /\ op[1].request.base = ""

\* ---------------------------------------------------------------- C16
\* the line of the chunk an onEvent invocation was made for
LineOf(c, e) == Split(Decode(received[c][e.chunk]))[e.line]

\* C16: every onEvent invocation has for second argument the value parsed
\* from the text of its line after the 6 characters of the prefix, which is
\* never null, and for first argument the type member of that value,
\* undefined when the value has none; a call is rejected only by the
\* response status or a read error, so a null payload makes no error.
C16_CallbackArguments ==
  \A c \in Calls :
    /\ \A i \in 1..Len(log[c]) :
         LET e == log[c][i]
             data == SubSeq(LineOf(c, e), 7, Len(LineOf(c, e)))
         IN /\ SubSeq(LineOf(c, e), 1, 6) = DataPrefix
            /\ JSONParse(data).ok
            /\ e.event = JSONParse(data).val
            /\ e.event # JNull
            /\ e.type = TypeOf(e.event)
            /\ (e.event.k # "obj" \/ \A m \in 1..Len(e.event.v) :
                                       e.event.v[m][1] # TypeKey)
                 => e.type = UNDEF
    /\ failure[c] \in {"", "Failed to send message", "StreamReadError"}
\* the body 'data: null' then 'data: {}' has arrived whole: one console.error
\* for null, one invocation with an undefined type for {}
C16_Witness ==
  /\ pc[1] = "resolved"
  /\ received[1] = <<BodyNull>>
  /\ Len(log[1]) = 1
  /\ log[1][1].type = UNDEF
  /\ log[1][1].event = [k |-> "obj", v |-> <<>>]
  /\ errors[1] = 1

\* ---------------------------------------------------------------- C17
\* C17: an onEvent invocation, whether it returns or throws, ends with the
\* loop going on to the next line, the call not failing and nothing being
\* taken from the log; a call fails only by the response status or a read
\* error; and a call that has drained the stream has made one invocation for
\* every event of each of its chunks, whatever its callback threw.
C17_CallbackThrowContained ==
  /\ [](\A c \in Calls :
          /\ pc[c] = "rejected" => (responseOk[c] = "false" \/ readFailed[c])
          /\ pc[c] = "resolved" =>
               Len(log[c]) = Len(EventsOfChunks(received[c])))
  /\ [][\A c \in Calls :
          (pc[c] = "onEvent" /\ pc'[c] # "onEvent") =>
            /\ pc'[c] = "lines"
            /\ idx'[c] = idx[c] + 1
            /\ lines'[c] = lines[c]
            /\ log'[c] = log[c]
            /\ failure'[c] = failure[c]
            /\ errors'[c] \in {errors[c], errors[c] + 1}]_vars
\* both callbacks of the two events of one chunk threw, and the call resolved
C17_Witness ==
  /\ pc[1] = "resolved"
  /\ received[1] = <<BodyTwoEvents>>
  /\ Len(log[1]) = 2
  /\ errors[1] = 2

\* ---------------------------------------------------------------- C18
Settled(c) == pc[c] \in {"resolved", "rejected"}

\* C18: once a call is settled it stays settled as it is, its log of onEvent
\* invocations does not grow, no callback is running and no read is issued.
C18_SettledIsFinal ==
  /\ [](\A c \in Calls : Settled(c) => (cbActive[c] = 0 /\ running # c))
  /\ [][\A c \in Calls :
          Settled(c) =>
            /\ pc'[c] = pc[c]
            /\ log'[c] = log[c]
            /\ reads'[c] = reads[c]
            /\ failure'[c] = failure[c]]_vars
C18_Witness ==
  /\ pc[1] = "resolved"
  /\ reads[1] = 3
  /\ Len(log[1]) = 1

====
